---------------------------- MODULE Spec2Model ----------------------------
(***************************************************************************)
(* A model of the custom ls of src/main.c: the directory walk (list_dir),  *)
(* the per-entry listing (list_file), the error classification             *)
(* (handle_error) and the driver (main), as a state machine over a small   *)
(* filesystem.  One run of the program is one behaviour: the filesystem,   *)
(* the flags and the targets are chosen in Init and do not change.         *)
(*                                                                         *)
(* A path is the sequence of its '/'-separated components.  A component    *)
(* is [n |-> name, k |-> number of characters of the name that are         *)
(* present]: k = NameLen(n) for a whole name, 0 < k < NameLen(n) for a     *)
(* name cut short by strncpy, and k = 0 for an empty component (the path   *)
(* "D/" is <<D, empty>>).  The modelled trees hold no entry whose name is  *)
(* a proper prefix of another entry's name, so a cut name names nothing.   *)
(***************************************************************************)
EXTENDS Integers, Sequences, FiniteSets, TLC

\* ------------------------------------------------------------------ bounds

\* Longest list of targets on the command line.
MaxTargets == 2

\* Frames of list_dir the process stack holds before the process dies with
\* SIGSEGV.  Each frame of list_dir holds subdir_list (1024 * 256 bytes), so
\* a real 8 MB stack holds about 31; the modelled trees are 3 deep.
StackLimit == 4

\* ------------------------------------------------------------ constants

\* subdir_list[1024][256]: at most 1024 subdirectories are remembered and
\* each is cut to 255 characters.
SubdirMax == 1024
SubdirNameSize == 256

\* char fullpath[1024]: snprintf cuts the joined path to 1023 characters.
FullpathSize == 1024

\* One year in seconds, as date_string compares.
YearSeconds == 31556952

\* ------------------------------------------------------------ names, paths

\* strlen of each name of the modelled trees.  "x255", "y254" and "z200"
\* stand for names of 255, 254 and 200 characters.
NameLen(n) ==
  CASE n = "." -> 1
    [] n = ".." -> 2
    [] n = ".h" -> 2
    [] n = "sub" -> 3
    [] n = "up" -> 2
    [] n = "a.txt" -> 5
    [] n = "b.txt" -> 5
    [] n = "nope" -> 4
    [] n = "x" -> 1
    [] n = "e" -> 1
    [] n = "w9" -> 9
    [] n = "x255" -> 255
    [] n = "y254" -> 254
    [] n = "z200" -> 200
    [] OTHER -> 0

\* d_name[0] == '.'
StartsWithDot(n) == n \in {".", "..", ".h"}

Tok(n) == [n |-> n, k |-> NameLen(n)]

EmptyTok == [n |-> "", k |-> 0]

\* The first `room` characters of the components i.. of p (a '/' stands
\* before every component but the first).
RECURSIVE CutFrom(_, _, _)
CutFrom(p, i, room) ==
  IF i > Len(p) THEN <<>>
  ELSE LET sep == IF i = 1 THEN 0 ELSE 1 IN
       IF room < sep THEN <<>>
       ELSE LET r == room - sep IN
            IF p[i].k <= r
            THEN <<p[i]>> \o CutFrom(p, i + 1, r - p[i].k)
            ELSE IF r = 0 THEN <<EmptyTok>>
                 ELSE <<[n |-> p[i].n, k |-> r]>>

\* The string of a path whose names are whole, as argv holds it.
RECURSIVE PathText(_)
PathText(p) ==
  IF Len(p) = 1 THEN p[1].n
  ELSE PathText(SubSeq(p, 1, Len(p) - 1)) \o "/" \o p[Len(p)].n

\* snprintf(fullpath, sizeof(fullpath), "%s/%s", dirname, d_name)
JoinPath(dirname, name) ==
  CutFrom(Append(dirname, Tok(name)), 1, FullpathSize - 1)

\* strncpy(subdir_list[i], fullpath, 255); subdir_list[i][255] = '\0'
StoreSubdir(fullpath) == CutFrom(fullpath, 1, SubdirNameSize - 1)


\* ------------------------------------------------------------- filesystem

\* Node 0 is the working directory; it is its own parent, as "/" is.
\*   .            0  dir
\*   ./sub        1  dir
\*   ./a.txt      2  regular file
\*   ./.h         3  regular file, hidden
\*   ./sub/b.txt  4  regular file
\*   ./<big>      5  dir, its name chosen by the shape
\*   ./sub/up     6  symbolic link to ".."
\*   ./<big>/<inner>  7  dir, empty
Nodes == 0 .. 7

\* The names of nodes 5 and 7.
Shapes ==
  { [big |-> "w9", inner |-> "e"],
    [big |-> "x255", inner |-> "e"],
    [big |-> "y254", inner |-> "e"],
    [big |-> "z200", inner |-> "z200"] }

\* What is wrong with the filesystem, if anything:
\*   nosearch  sub has no search permission: lstat of its entries fails EACCES
\*   noread    sub has no read permission: opendir fails EACCES
\*   openio    opendir of sub fails with EIO
\*   openperm  opendir of sub fails with EPERM
\*   nouid     the owner of a.txt and b.txt has no passwd entry
\*   nogid     the group of a.txt and b.txt has no group entry
\*   nolink    readlink of sub/up fails
Faults ==
  {"none", "nosearch", "noread", "openio", "openperm", "nouid", "nogid",
   "nolink"}

\* uids with a passwd entry, gids with a group entry
KnownUids == {0}
KnownGids == {0}

Kid(name, id) == [name |-> name, id |-> id]

\* now, as timespec_get gives it to the runs of Spec
BaseNow == 50 * YearSeconds

MkNode(type, parent, kids, mode, size, age) ==
  [type |-> type, parent |-> parent, kids |-> kids, mode |-> mode,
   nlink |-> IF type = "dir" THEN 2 + Len(kids) ELSE 1,
   uid |-> 0, gid |-> 0, size |-> size, mtime |-> BaseNow - age,
   search |-> TRUE, open_err |-> "", link_ok |-> TRUE, link_to |-> parent]

BaseFs(shape) ==
  [i \in Nodes |->
     CASE i = 0 -> MkNode("dir", 0, <<Kid("sub", 1), Kid("a.txt", 2),
                                     Kid(".h", 3), Kid(shape.big, 5)>>,
                          493, 4096, 10)
       [] i = 1 -> MkNode("dir", 0, <<Kid("b.txt", 4), Kid("up", 6)>>,
                          493, 4096, 172800)
       [] i = 2 -> MkNode("reg", 0, <<>>, 420, 1536, 172800)
       [] i = 3 -> MkNode("reg", 0, <<>>, 384, 0, 400 * 86400)
       [] i = 4 -> MkNode("reg", 1, <<>>, 420, 1048576, YearSeconds)
       [] i = 5 -> MkNode("dir", 0, <<Kid(shape.inner, 7)>>, 493, 4096, 0)
       [] i = 6 -> MkNode("lnk", 1, <<>>, 511, 2, 0 - 10)
       [] OTHER -> MkNode("dir", 5, <<>>, 448, 4096, YearSeconds + 1) ]

MkFs(shape, fault) ==
  LET b == BaseFs(shape) IN
  CASE fault = "nosearch" -> [b EXCEPT ![1].search = FALSE]
    [] fault = "noread" -> [b EXCEPT ![1].open_err = "EACCES"]
    [] fault = "openio" -> [b EXCEPT ![1].open_err = "EIO"]
    [] fault = "openperm" -> [b EXCEPT ![1].open_err = "EPERM"]
    [] fault = "nouid" -> [b EXCEPT ![2].uid = 12345, ![4].uid = 12345]
    [] fault = "nogid" -> [b EXCEPT ![2].gid = 23456, ![4].gid = 23456]
    [] fault = "nolink" -> [b EXCEPT ![6].link_ok = FALSE]
    [] OTHER -> b

\* The entry of directory node d named by component t, or -1.  A cut name
\* and a name the directory does not hold name nothing.
Lookup(f, d, t) ==
  IF t.k < NameLen(t.n) THEN 0 - 1
  ELSE IF t.n = "." THEN d
  ELSE IF t.n = ".." THEN f[d].parent
  ELSE LET hit == {j \in 1 .. Len(f[d].kids) : f[d].kids[j].name = t.n} IN
       IF hit = {} THEN 0 - 1 ELSE f[d].kids[CHOOSE j \in hit : TRUE].id

\* Path resolution from the working directory, as the kernel does it for
\* lstat: components i.. of p, standing at node d.  The last component is
\* not followed when it is a symbolic link; an inner one is.
RECURSIVE Walk(_, _, _, _)
Walk(f, p, i, d) ==
  IF i > Len(p) THEN [err |-> "", node |-> d]
  ELSE LET here == IF f[d].type = "lnk" THEN f[d].link_to ELSE d IN
       IF f[here].type # "dir" THEN [err |-> "ENOTDIR", node |-> 0 - 1]
       ELSE IF p[i].k = 0 THEN Walk(f, p, i + 1, here)
       ELSE IF ~f[here].search THEN [err |-> "EACCES", node |-> 0 - 1]
       ELSE LET nxt == Lookup(f, here, p[i]) IN
            IF nxt < 0 THEN [err |-> "ENOENT", node |-> 0 - 1]
            ELSE Walk(f, p, i + 1, nxt)

\* lstat(path, &sb): err is the errno ("" on success), node the inode
Lstat(f, p) == Walk(f, p, 1, 0)

\* opendir(path): follows a final symbolic link, needs a directory that
\* can be read
Opendir(f, p) ==
  LET r == Lstat(f, p) IN
  IF r.err # "" THEN r
  ELSE LET d == IF f[r.node].type = "lnk" THEN f[r.node].link_to ELSE r.node IN
       IF f[d].type # "dir" THEN [err |-> "ENOTDIR", node |-> 0 - 1]
       ELSE IF f[d].open_err # "" THEN [err |-> f[d].open_err, node |-> 0 - 1]
       ELSE [err |-> "", node |-> d]

\* The names readdir yields for directory node d, in order.
Readdir(f, d) ==
  <<".", "..">> \o [j \in 1 .. Len(f[d].kids) |-> f[d].kids[j].name]


\* ------------------------------------------------------------- formatting

\* a | b on non-negative ints
RECURSIVE BitOr(_, _)
BitOr(a, b) ==
  IF a = 0 THEN b
  ELSE IF b = 0 THEN a
  ELSE (IF a % 2 = 1 \/ b % 2 = 1 THEN 1 ELSE 0)
       + 2 * BitOr(a \div 2, b \div 2)

\* (a & mask) != 0 for a one-bit mask
HasBit(a, mask) == (a \div mask) % 2 = 1

\* ftype_to_str(sb.st_mode)
ftype_to_str(type) ==
  IF type = "dir" THEN "d"
  ELSE IF type = "reg" THEN "-"
  ELSE IF type = "lnk" THEN "l"
  ELSE "?"

\* The nine PRINT_PERM_CHAR calls: S_IRUSR (0400) down to S_IXOTH (0001).
PermChars(mode) ==
  [j \in 1 .. 9 |->
     IF HasBit(mode, 2 ^ (9 - j))
     THEN (CASE j % 3 = 1 -> "r" [] j % 3 = 2 -> "w" [] OTHER -> "x")
     ELSE "-"]

\* The loop of format_size_human: den is 1024^unit_index.
RECURSIVE SizeUnit(_, _, _)
SizeUnit(size, den, unit_index) ==
  IF size >= 1024 * den /\ unit_index < 6
  THEN SizeUnit(size, den * 1024, unit_index + 1)
  ELSE [den |-> den, unit_index |-> unit_index]

\* format_size_human(size): the text as <<integer>> ("%lld") or as
\* <<whole, tenth, unit>> ("%.1f%s", the exact quotient rounded to one
\* decimal, a tie to the even digit).  The double is exact for sizes below
\* 2^53; the sizes modelled stay below 2^27.
format_size_human(size) ==
  LET u == SizeUnit(size, 1, 0)
      units == <<"B", "K", "M", "G", "T", "P", "E">>
      t == (10 * size) \div u.den
      rem == 10 * size - t * u.den
      tenths == IF 2 * rem > u.den \/ (2 * rem = u.den /\ t % 2 = 1)
                THEN t + 1 ELSE t
  IN IF u.unit_index = 0 THEN <<size>>
     ELSE <<tenths \div 10, tenths % 10, units[u.unit_index + 1]>>

\* date_string with the comparison of line 100 as <= : a file exactly one
\* year old still shows a clock time.
date_string_le(ts, clock) ==
  IF clock < ts THEN "%b %e %Y"
  ELSE IF clock - ts <= YearSeconds THEN "%b %e %H:%M"
  ELSE "%b %e %Y"

\* date_string(ts, out, len): the strftime format chosen for ts, now being
\* the clock.
date_string(ts, clock) ==
  IF clock < ts THEN "%b %e %Y"
  ELSE IF clock - ts < YearSeconds THEN "%b %e %H:%M"
  ELSE "%b %e %Y"

\* ------------------------------------------------------------------ state

VARIABLES
  fs,              \* the filesystem: node -> inode
  now,             \* the clock, seconds
  targets,         \* argv[optind .. argc-1], each a path
  list_long,       \* -l
  list_all,        \* -a
  recursive,       \* -R
  count_only,      \* -n
  human_readable,  \* -h
  pc,              \* where main stands: start, loop, called, default, exit, crashed
  argi,            \* main's index, 1-based into targets
  stack,           \* the frames of list_dir, the innermost last
  out,             \* the lines written to stdout, in order
  err_code,        \* the exit status being accumulated
  file_count,      \* the -n counter
  fails,           \* history: the calls that failed, as [what, p]
  earlier          \* history: the output of the run before this one, or <<>>

vars == <<fs, now, targets, list_long, list_all, recursive, count_only,
          human_readable, pc, argi, stack, out, err_code, file_count, fails,
          earlier>>

\* The part of the state list_file and handle_error write.
Acc == [out |-> out, err |-> err_code, cnt |-> file_count, fails |-> fails]

Failed(st, what, p) ==
  [st EXCEPT !.fails = @ \cup {[what |-> what, p |-> p]}]

Emit(st, line) == [st EXCEPT !.out = Append(@, line)]

\* The cause bit handle_error picks for the saved errno.
CauseBit(errno) ==
  IF errno = "ENOENT" THEN 8
  ELSE IF errno = "EACCES" \/ errno = "EPERM" THEN 16
  ELSE 32

\* handle_error with = for |= : the status is overwritten.
handle_error_assign(st, what_happened, fullname, errno) ==
  LET printed == Emit(st, [k |-> "diag", what |-> what_happened,
                           p |-> fullname, errno |-> errno])
  IN [printed EXCEPT !.err = BitOr(64, CauseBit(errno))]

\* handle_error(what_happened, fullname), errno being the saved errno
handle_error(st, what_happened, fullname, errno) ==
  LET printed == Emit(st, [k |-> "diag", what |-> what_happened,
                           p |-> fullname, errno |-> errno])
  IN [printed EXCEPT !.err = BitOr(BitOr(@, 64), CauseBit(errno))]

\* test_file without its call of handle_error.
test_file_silent(st, pathandname) ==
  [ok |-> Lstat(fs, pathandname).err = "", st |-> st]

\* test_file(pathandname)
test_file(st, pathandname) ==
  LET r == Lstat(fs, pathandname) IN
  IF r.err # ""
  THEN [ok |-> FALSE,
        st |-> handle_error(Failed(st, "stat", pathandname),
                            "cannot access", pathandname, r.err)]
  ELSE [ok |-> TRUE, st |-> st]

\* is_dir(pathandname)
is_dir(st, pathandname) ==
  LET r == Lstat(fs, pathandname) IN
  IF r.err # ""
  THEN [ok |-> FALSE,
        st |-> handle_error(Failed(st, "stat", pathandname), "No File Found",
                            <<[n |-> "is_dir", k |-> 6]>>, r.err)]
  ELSE [ok |-> fs[r.node].type = "dir", st |-> st]

\* The name-lookup failure branch of list_file: err_code |= (1 << 6) | (1 << 5)
LookupFailed(st, what, p) ==
  [Failed(st, what, p) EXCEPT !.err = BitOr(@, BitOr(2 ^ 6, 2 ^ 5))]

\* The long branch of list_file, sb being the inode lstat returned.
ListLong(st, pathandname, name, sb) ==
  LET uname_ok == sb.uid \in KnownUids
      group_ok == sb.gid \in KnownGids
      s1 == IF uname_ok THEN st ELSE LookupFailed(st, "owner", pathandname)
      s2 == IF group_ok THEN s1 ELSE LookupFailed(s1, "group", pathandname)
      s3 == IF sb.type = "lnk" /\ ~sb.link_ok
            THEN Failed(s2, "readlink", pathandname) ELSE s2
      tail == IF sb.type = "lnk"
              THEN (IF sb.link_ok THEN "-> target" ELSE "-> ?")
              ELSE IF sb.type = "dir" /\ name # "." /\ name # ".."
                   THEN "/" ELSE ""
  IN Emit(s3, [k |-> "long",
               p |-> pathandname,
               type |-> ftype_to_str(sb.type),
               perm |-> PermChars(sb.mode),
               nlink |-> sb.nlink,
               owner |-> IF uname_ok THEN "name" ELSE "id",
               group |-> IF group_ok THEN "name" ELSE "id",
               size |-> IF human_readable THEN format_size_human(sb.size)
                        ELSE <<sb.size>>,
               date |-> date_string(sb.mtime, now),
               name |-> name,
               tail |-> tail])

\* list_file, lines 234-327: what it does when -n is off.
ListShown(st, pathandname, name, long) ==
  IF long
  THEN LET r == Lstat(fs, pathandname) IN
       IF r.err # ""
       THEN handle_error(Failed(st, "stat", pathandname),
                         "cannot access", pathandname, r.err)
       ELSE ListLong(st, pathandname, name, fs[r.node])
  ELSE LET t == test_file(st, pathandname) IN
       IF ~t.ok THEN t.st
       ELSE LET d == is_dir(t.st, pathandname) IN
            Emit(d.st, [k |-> "name", p |-> pathandname, name |-> name,
                        tail |-> IF d.ok /\ name # "." /\ name # ".."
                                 THEN "/" ELSE ""])

\* list_file counting, under -n, only the entries it can stat.
list_file_count_statable(st, pathandname, name, long) ==
  IF count_only
  THEN (IF Lstat(fs, pathandname).err = ""
        THEN [st EXCEPT !.cnt = @ + 1] ELSE st)
  ELSE ListShown(st, pathandname, name, long)

\* list_file(pathandname, name, long)
list_file(st, pathandname, name, long) ==
  IF count_only THEN [st EXCEPT !.cnt = @ + 1]
  ELSE ListShown(st, pathandname, name, long)

\* ------------------------------------------------------------------- runs

\* The paths a target may be: a directory, a file, a name that does not
\* exist, a path through a regular file, and the directory with the long
\* name.
TargetPaths(shape) ==
  { <<Tok("sub")>>, <<Tok("a.txt")>>, <<Tok("nope")>>,
    <<Tok("a.txt"), Tok("x")>>, <<Tok(shape.big)>> }

SeqsUpTo(S, n) == UNION {[1 .. m -> S] : m \in 0 .. n}

\* A fault comes with the short names, a long name with no fault.
Scenarios ==
  {[shape |-> sh, fault |-> "none"] : sh \in Shapes}
    \cup {[shape |-> [big |-> "w9", inner |-> "e"], fault |-> fl] :
            fl \in Faults}

\* A frame of list_dir as it is entered.
Frame(dirname) ==
  [dirname |-> dirname, st |-> "open", dir |-> 0 - 1, pos |-> 1,
   subdirs |-> <<>>, idx |-> 1]

Top == stack[Len(stack)]

SetTop(fr) == [stack EXCEPT ![Len(stack)] = fr]

Pop == SubSeq(stack, 1, Len(stack) - 1)

Put(st) ==
  /\ out' = st.out
  /\ err_code' = st.err
  /\ file_count' = st.cnt
  /\ fails' = st.fails

Input == <<fs, now, targets, list_long, list_all, recursive, human_readable,
           earlier>>

\* The state main starts from once getopt_long has set the flags.
Start ==
  /\ pc = "start"
  /\ argi = 1
  /\ stack = <<>>
  /\ out = <<>>
  /\ err_code = 0
  /\ file_count = 0
  /\ fails = {}

Init ==
  /\ \E sc \in Scenarios :
       /\ fs = MkFs(sc.shape, sc.fault)
       /\ targets \in SeqsUpTo(TargetPaths(sc.shape), MaxTargets)
  /\ now = BaseNow
  /\ list_long \in BOOLEAN
  /\ list_all \in BOOLEAN
  /\ recursive \in BOOLEAN
  /\ count_only \in BOOLEAN
  /\ human_readable = FALSE
  /\ earlier = <<>>
  /\ Start

\* main, lines 452-459: with no target, list "." (after a header of main's
\* own when recursive); otherwise enter the loop over the targets.
MainStart ==
  /\ pc = "start"
  /\ IF targets = <<>>
     THEN /\ out' = IF recursive
                    THEN Append(out, [k |-> "header", p |-> <<Tok(".")>>])
                    ELSE out
          /\ stack' = <<Frame(<<Tok(".")>>)>>
          /\ pc' = "default"
     ELSE /\ pc' = "loop"
          /\ UNCHANGED <<out, stack>>
  /\ UNCHANGED <<argi, err_code, file_count, fails>>
  /\ UNCHANGED <<Input, count_only>>

\* main, lines 460-483: one target, up to the call of list_dir.
MainTarget ==
  /\ pc = "loop"
  /\ argi <= Len(targets)
  /\ LET arg == targets[argi]
         t == test_file(Acc, arg)
         d == is_dir(t.st, arg)
     IN IF ~t.ok
        THEN /\ Put(t.st)
             /\ argi' = argi + 1
             /\ UNCHANGED <<pc, stack>>
        ELSE IF d.ok
        THEN /\ Put(IF Len(targets) > 1
                    THEN Emit(d.st, [k |-> "header", p |-> arg])
                    ELSE d.st)
             /\ stack' = <<Frame(arg)>>
             /\ pc' = "called"
             /\ UNCHANGED argi
        ELSE /\ Put(list_file(d.st, arg, PathText(arg), list_long))
             /\ argi' = argi + 1
             /\ UNCHANGED <<pc, stack>>
  /\ UNCHANGED <<Input, count_only>>

\* main, lines 476-478: list_dir has returned; a blank line unless this was
\* the last target.
MainAfterDir ==
  /\ pc = "called"
  /\ stack = <<>>
  /\ out' = IF argi < Len(targets) THEN Append(out, [k |-> "blank"]) ELSE out
  /\ argi' = argi + 1
  /\ pc' = "loop"
  /\ UNCHANGED <<stack, err_code, file_count, fails>>
  /\ UNCHANGED <<Input, count_only>>

\* main, lines 486-490: the total in count mode, then exit(err_code).
MainFinish ==
  /\ \/ pc = "loop" /\ argi > Len(targets)
     \/ pc = "default" /\ stack = <<>>
  /\ out' = IF count_only
            THEN Append(out, [k |-> "total", n |-> file_count])
            ELSE out
  /\ pc' = "exit"
  /\ UNCHANGED <<argi, stack, err_code, file_count, fails>>
  /\ UNCHANGED <<Input, count_only>>

\* list_dir, lines 339-350: the header when recursive, then opendir; a
\* failure is reported and list_dir returns.
ListDirOpen ==
  /\ stack # <<>>
  /\ Top.st = "open"
  /\ LET s1 == IF recursive
               THEN Emit(Acc, [k |-> "header", p |-> Top.dirname])
               ELSE Acc
         r == Opendir(fs, Top.dirname)
     IN IF r.err # ""
        THEN /\ Put(handle_error(Failed(s1, "open", Top.dirname),
                                 "Error opening directory", Top.dirname,
                                 r.err))
             /\ stack' = Pop
        ELSE /\ Put(s1)
             /\ stack' = SetTop([Top EXCEPT !.st = "read", !.dir = r.node])
  /\ UNCHANGED <<pc, argi>>
  /\ UNCHANGED <<Input, count_only>>

\* list_dir, lines 375-383: the entry is remembered when it is a directory
\* and subdir_list has room.
Remember(subdirs, fullpath) ==
  LET r == Lstat(fs, fullpath) IN
  IF r.err = "" /\ fs[r.node].type = "dir" /\ Len(subdirs) < SubdirMax
  THEN Append(subdirs, StoreSubdir(fullpath))
  ELSE subdirs

\* list_dir, lines 356-385: one turn of the readdir loop.
ListDirEntry ==
  /\ stack # <<>>
  /\ Top.st = "read"
  /\ Top.pos <= Len(Readdir(fs, Top.dir))
  /\ LET d_name == Readdir(fs, Top.dir)[Top.pos]
         fullpath == JoinPath(Top.dirname, d_name)
         next == [Top EXCEPT !.pos = @ + 1]
     IN IF ~list_all /\ StartsWithDot(d_name)
        THEN /\ stack' = SetTop(next)
             /\ UNCHANGED <<out, err_code, file_count, fails>>
        ELSE /\ Put(list_file(Acc, fullpath, d_name, list_long))
             /\ stack' =
                  SetTop(IF recursive /\ d_name # "." /\ d_name # ".."
                         THEN [next EXCEPT
                                 !.subdirs = Remember(@, fullpath)]
                         ELSE next)
  /\ UNCHANGED <<pc, argi>>
  /\ UNCHANGED <<Input, count_only>>

\* list_dir, lines 356 and 387-389: readdir returns NULL, closedir.
ListDirClose ==
  /\ stack # <<>>
  /\ Top.st = "read"
  /\ Top.pos > Len(Readdir(fs, Top.dir))
  /\ stack' = SetTop([Top EXCEPT !.st = "recurse", !.dir = 0 - 1])
  /\ UNCHANGED <<pc, argi, out, err_code, file_count, fails>>
  /\ UNCHANGED <<Input, count_only>>

\* list_dir, lines 389-393: a blank line, then the call for the next
\* remembered subdirectory (index moves on when the call returns).
ListDirRecurse ==
  /\ stack # <<>>
  /\ Top.st = "recurse"
  /\ recursive
  /\ Top.idx <= Len(Top.subdirs)
  /\ Len(stack) < StackLimit
  /\ out' = Append(out, [k |-> "blank"])
  /\ stack' = Append(SetTop([Top EXCEPT !.idx = @ + 1]),
                     Frame(Top.subdirs[Top.idx]))
  /\ UNCHANGED <<pc, argi, err_code, file_count, fails>>
  /\ UNCHANGED <<Input, count_only>>

\* The call of line 392 with no stack left for the frame: SIGSEGV, and
\* what stdout still buffers is lost.
StackOverflow ==
  /\ pc # "crashed"
  /\ stack # <<>>
  /\ Top.st = "recurse"
  /\ recursive
  /\ Top.idx <= Len(Top.subdirs)
  /\ Len(stack) >= StackLimit
  /\ pc' = "crashed"
  /\ UNCHANGED <<argi, stack, out, err_code, file_count, fails>>
  /\ UNCHANGED <<Input, count_only>>

\* list_dir, lines 389-395: nothing left to recurse into; return.
ListDirReturn ==
  /\ stack # <<>>
  /\ pc # "crashed"
  /\ Top.st = "recurse"
  /\ ~recursive \/ Top.idx > Len(Top.subdirs)
  /\ stack' = Pop
  /\ UNCHANGED <<pc, argi, out, err_code, file_count, fails>>
  /\ UNCHANGED <<Input, count_only>>

Next ==
  \/ MainStart
  \/ MainTarget
  \/ MainAfterDir
  \/ MainFinish
  \/ ListDirOpen
  \/ ListDirEntry
  \/ ListDirClose
  \/ ListDirRecurse
  \/ StackOverflow
  \/ ListDirReturn

Spec == Init /\ [][Next]_vars


\* ------------------------------------------------- other specifications

\* The program run once more on the same command line without -n, over
\* the same filesystem: main starts again (lines 401-404 and 452), and
\* the finished run's output is kept for comparison.
Rerun ==
  /\ pc = "exit"
  /\ count_only
  /\ count_only' = FALSE
  /\ earlier' = out
  /\ pc' = "start"
  /\ argi' = 1
  /\ stack' = <<>>
  /\ out' = <<>>
  /\ err_code' = 0
  /\ file_count' = 0
  /\ fails' = {}
  /\ UNCHANGED <<fs, now, targets, list_long, list_all, recursive,
                 human_readable>>

\* A -n run followed by the same run in bare mode.
InitPair ==
  /\ Init
  /\ count_only
  /\ ~list_long

NextPair == Next \/ Rerun

SpecPair == InitPair /\ [][NextPair]_vars

\* ls -l a.txt, with or without -h, the size and the age of a.txt drawn
\* around the unit and the one-year thresholds.
Ages ==
  { 0 - 10, 0 - 1, 0, 1, 172800, YearSeconds - 1, YearSeconds,
    YearSeconds + 1, 400 * 86400 }

Sizes == {0, 1023, 1024, 1280, 1536, 1048570, 1048576, 104857600}

InitLong ==
  /\ \E age \in Ages, size \in Sizes :
       fs = [MkFs([big |-> "w9", inner |-> "e"], "none") EXCEPT
               ![2].mtime = BaseNow - age, ![2].size = size]
  /\ targets = << <<Tok("a.txt")>> >>
  /\ now = BaseNow
  /\ list_long = TRUE
  /\ list_all = FALSE
  /\ recursive = FALSE
  /\ count_only = FALSE
  /\ human_readable \in BOOLEAN
  /\ earlier = <<>>
  /\ Start

NextLong == MainStart \/ MainTarget \/ MainFinish

SpecLong == InitLong /\ [][NextLong]_vars


\* ----------------------------------------------------------------- claims

\* How many lines of o are of kind k.
CountKind(o, k) == Cardinality({i \in 1 .. Len(o) : o[i].k = k})

\* How many lines of o are the diagnostic `what`.
CountDiag(o, what) ==
  Cardinality({i \in 1 .. Len(o) : o[i].k = "diag" /\ o[i].what = what})

\* The bits set in an exit status.
BitsOf(n) == {b \in {1, 2, 4, 8, 16, 32, 64} : HasBit(n, b)}

\* A user or group lookup has failed in this run.
SomeLookupFailed == \E f \in fails : f.what \in {"owner", "group"}

\* C1: the bit a name-lookup failure sets is set by nothing else: it is on
\* only in runs in which a user or group lookup failed, and so an exit
\* status of 96 comes only from such runs.
C1_LookupBitIsDedicated ==
  /\ HasBit(err_code, 2 ^ 5) => SomeLookupFailed
  /\ (pc = "exit" /\ err_code = 96) => SomeLookupFailed

\* The last line of a finished -n run is its total.
TotalOf(o) == o[Len(o)].n

\* A -n run has finished and the same run in bare mode has finished too.
PairDone == pc = "exit" /\ ~count_only /\ earlier # <<>>

\* C2 as stated: the total of the -n run equals the number of entry lines
\* of the bare run, and the -n run prints no entry line.
C2_TotalEqualsBareLines ==
  PairDone =>
    /\ TotalOf(earlier) = CountKind(out, "name")
    /\ CountKind(earlier, "name") + CountKind(earlier, "long") = 0

\* C2 amended: the total of the -n run equals the number of entry lines of
\* the bare run plus the number of "cannot access" diagnostics the bare run
\* prints for directory entries (those it prints and the -n run does not);
\* the -n run prints no entry line, and its total is its last line.
C2_TotalEqualsBareLinesAndEntryDiags ==
  /\ (pc = "exit" /\ count_only) =>
       /\ out[Len(out)].k = "total"
       /\ CountKind(out, "total") = 1
       /\ CountKind(out, "name") + CountKind(out, "long") = 0
  /\ PairDone =>
       TotalOf(earlier) =
         CountKind(out, "name")
           + (CountDiag(out, "cannot access")
                - CountDiag(earlier, "cannot access"))

\* C2 witness: a pair of finished runs whose total counts entries the bare
\* run could not stat, next to entries it printed.
C2_Witness ==
  /\ PairDone
  /\ TotalOf(earlier) > CountKind(out, "name")
  /\ CountKind(out, "name") > 0

\* The run is a bare, non-recursive listing of one directory that opens:
\* the only target, or "." when there is none.
BareDir ==
  IF targets = <<>> THEN <<Tok(".")>> ELSE targets[1]

BareListingDone ==
  /\ pc = "exit"
  /\ ~list_long /\ ~count_only /\ ~recursive
  /\ Len(targets) <= 1
  /\ Opendir(fs, BareDir).err = ""
  /\ fs[Lstat(fs, BareDir).node].type = "dir"

\* The direct entries of the listed directory that pass the hidden filter,
\* in the order of the directory stream.
VisibleEntries ==
  LET all == Readdir(fs, Opendir(fs, BareDir).node)
      keep(n) == list_all \/ n \notin {".", "..", ".h"}
  IN SelectSeq(all, keep)

RECURSIVE TrailingHeaders(_, _)
TrailingHeaders(o, p) ==
  IF o # <<>> /\ o[Len(o)].k = "header" /\ o[Len(o)].p = p
  THEN 1 + TrailingHeaders(SubSeq(o, 1, Len(o) - 1), p)
  ELSE 0

\* C4: when a directory has been opened and its listing is about to begin,
\* the output ends with exactly one header naming it if there are several
\* targets or -R is on, and with none otherwise.
C4_OneHeaderPerDirectory ==
  (stack # <<>> /\ Top.st = "read" /\ Top.pos = 1) =>
    TrailingHeaders(out, Top.dirname)
      = IF Len(targets) > 1 \/ recursive THEN 1 ELSE 0

\* C5: when the run exits, every failure that occurred has a diagnostic
\* naming its path, and if any occurred the exit status is not 0.
C5_EveryFailureSurfaced ==
  pc = "exit" =>
    /\ \A f \in fails :
         \E i \in 1 .. Len(out) : out[i].k = "diag" /\ out[i].p = f.p
    /\ fails # {} => err_code # 0

\* The cause bit the claim gives for an errno.
ClaimedCause(errno) ==
  CASE errno = "ENOENT" -> 8
    [] errno \in {"EACCES", "EPERM"} -> 16
    [] OTHER -> 32

StatusWellFormed(e) ==
  e = 0 \/ (HasBit(e, 64) /\ BitsOf(e) \cap {8, 16, 32} # {})

C7_OpenFailureWritesOnlyDiagnostic ==
  [][ (/\ Len(out') > Len(out)
       /\ out'[Len(out')].k = "diag"
       /\ out'[Len(out')].what = "Error opening directory") =>
        out' = Append(out, out'[Len(out')]) ]_vars

\* The subdirectories list_dir is to recurse into from directory `dirname`:
\* its direct entries that pass the hidden filter, are not "." or ".." and
\* are directories by lstat, as full paths in stream order.
ExpectedSubdirs(dirname) ==
  LET all == Readdir(fs, Opendir(fs, dirname).node)
      path(n) == Append(dirname, Tok(n))
      isdir(n) == /\ n \notin {".", ".."}
                  /\ list_all \/ n \notin {".h"}
                  /\ Lstat(fs, path(n)).err = ""
                  /\ fs[Lstat(fs, path(n)).node].type = "dir"
      keep == SelectSeq(all, isdir)
  IN [j \in 1 .. Len(keep) |-> path(keep[j])]

\* C8: in recursive mode only the innermost list_dir is still reading its
\* directory; a list_dir that has closed its directory recurses into
\* exactly its subdirectories, in stream order, one call at a time.
C8_RecursesIntoEverySubdir ==
  recursive =>
    \A i \in 1 .. Len(stack) :
      /\ i < Len(stack) =>
           /\ stack[i].st = "recurse"
           /\ stack[i].idx > 1
           /\ stack[i + 1].dirname = stack[i].subdirs[stack[i].idx - 1]
      /\ stack[i].st = "recurse" =>
           stack[i].subdirs = ExpectedSubdirs(stack[i].dirname)

\* The date format a long line shows for the entry at path p.
Mtime(p) == fs[Lstat(fs, p).node].mtime

\* C9 as stated: a year when the modification time is after now or more
\* than 31,556,952 seconds before now, a clock time otherwise.
C9_YearWhenMoreThanAYearOld ==
  \A i \in 1 .. Len(out) :
    out[i].k = "long" =>
      out[i].date = IF Mtime(out[i].p) > now
                       \/ now - Mtime(out[i].p) > 31556952
                    THEN "%b %e %Y" ELSE "%b %e %H:%M"

\* C9 amended: a year when the modification time is after now or 31,556,952
\* seconds or more before now, a clock time otherwise.
C9_YearWhenAYearOldOrMore ==
  \A i \in 1 .. Len(out) :
    out[i].k = "long" =>
      out[i].date = IF Mtime(out[i].p) > now
                       \/ now - Mtime(out[i].p) >= 31556952
                    THEN "%b %e %Y" ELSE "%b %e %H:%M"

\* C9 witness: a long line for a file modified exactly 31,556,952 seconds
\* ago, shown with a year.
C9_Witness ==
  \E i \in 1 .. Len(out) :
    /\ out[i].k = "long"
    /\ now - Mtime(out[i].p) = 31556952
    /\ out[i].date = "%b %e %Y"

\* C10: the run ends by exit(err_code) and in no other way: the process is
\* never killed in mid-run by a recursion that does not end.
C10_RunsToExit == pc # "crashed"

=============================================================================
